---- MODULE Spec2Model ----
(***************************************************************************)
(* Model of the fetch/cache/extract pipeline of darty:                     *)
(*   backend/cache_manager.py  CacheManager  (file cache with a TTL)       *)
(*   backend/scraper.py        DocScraper    (fetch, extract, aggregate)   *)
(*                                                                         *)
(* Time is counted in hours.  A cache file is absent, a complete JSON      *)
(* record {url, content, timestamp}, or the truncated remainder of a write *)
(* that failed after open(path, 'w').  A page is a sequence of markup      *)
(* elements; the empty sequence is the empty string.  A record is kept in  *)
(* its serialised form: strings as json.dump escapes them, the timestamp   *)
(* as isoformat writes it; get parses them back.                           *)
(*                                                                         *)
(* Storage faults: a write can fail at open(path, 'w') or part-way through *)
(* json.dump (no space, no descriptor).  In the specifications with one    *)
(* thread unlink is called on a file the thread has just seen and          *)
(* succeeds.                                                               *)
(*                                                                         *)
(* Spec       the CacheManager API called in any order, with a clock       *)
(* SpecFetch  DocScraper._fetch_url called in any order, with cache        *)
(*            deletions and a clock                                        *)
(* SpecRun    one run of get_all_documentation and build_context_summary   *)
(*            over a cache left by earlier runs                            *)
(* SpecExtract  a page through extraction under a budget and the summary  *)
(* SpecConc   a get and a set on one CacheManager in two threads, a step   *)
(*            per access to the file system                                *)
(* SpecConfig  the constructor with any TTL, then a run over any prefix   *)
(*            of the list of educational addresses                         *)
(* SpecPaths  a page to its section, from the cache and from the network   *)
(* SpecFlight  _fetch_url of one address in two threads                    *)
(* SpecEnum   get_cache_stats or clear_all in one thread, deletions in     *)
(*            another                                                      *)
(***************************************************************************)
EXTENDS Integers, Sequences, FiniteSets, TLC

VARIABLES
    files,      \* cache_dir: path -> file
    now,        \* datetime.now(), in hours
    ret,        \* the last call: its operation, arguments and return value
                \* (and, for set, what became of the write)
    written,    \* per address: the last set, if it succeeded and nothing
                \* but get has been called on the address since
    gone,       \* per address: the last deletion since the last attempt to
                \* set it: "no", "expiry", "invalidate", "clear_all" (or
                \* "clear_all_nothing" when clear_all found no file for it)
    pc,         \* where the run is: "idle", "dart_archive", "flutter_releases",
                \* "educational_resources", "build_context_summary", "done"
    i,          \* enumerate(EDUCATIONAL_URLS, 1): the index of the iteration
    documentation,  \* the dictionary get_all_documentation builds
    attempts,   \* the _fetch_url calls of the run, in order, with their outcome
    context,    \* what build_context_summary gave
    faults,     \* failures and odd responses the environment has produced
    threads     \* the call each thread of SpecConc is in: its position in
                \* the method and its local variables

cacheVars == <<files, now, ret, written, gone>>
runVars == <<pc, i, documentation, attempts, context, faults>>
vars == <<files, now, ret, written, gone, pc, i, documentation, attempts, context, faults,
         threads>>

----------------------------------------------------------------------------
(* Bounds of the model *)

MaxTime == 26            \* the clock stops here
MaxPartial == 1          \* bytes left behind by a write that failed
MaxFaults == 1           \* failures and odd responses in one run
MaxBudget == 12          \* largest max_chars the extraction is exercised with

(* Program constants *)

ttl_hours == 24          \* CacheManager.__init__(ttl_hours=24)
JsonOverhead == 77       \* bytes of json.dump(indent=2) around url and content
PrimaryBudget == 3000    \* _extract_text_from_html(html, 3000)
EducationalBudget == 2000    \* _extract_text_from_html(html, 2000)
PrimarySummaryChars == 800   \* ['content'][:800]
EducationalSummaryChars == 600   \* resource['content'][:600]
SummaryTitleChars == 60  \* resource['title'][:60]
SummaryCap == 8          \* documentation['educational_resources'][:8]

----------------------------------------------------------------------------
(* Addresses *)

DART_ARCHIVE_URL == "https://dart.dev/get-dart/archive"
FLUTTER_RELEASES_URL == "https://docs.flutter.dev/release/release-notes"

EDUCATIONAL_URLS ==
    << "https://www.educative.io/courses/learn-dart-first-step-to-flutter/an-introduction-to-control-structures",
       "https://pub.dev/",
       "https://dart.dev/tutorials",
       "https://dart.dev/language",
       "https://code.makery.ch/library/topic/dart/",
       "https://dart.dev/docs",
       "https://dart.dev/guides",
       "https://dart.dev/guides/language/language-tour",
       "https://docs.flutter.dev/get-started/install",
       "https://docs.flutter.dev/development/ui/widgets-intro",
       "https://docs.flutter.dev/cookbook" >>

\* every address the program fetches, in the order of a run
Sources == <<DART_ARCHIVE_URL, FLUTTER_RELEASES_URL>> \o EDUCATIONAL_URLS

\* the MD5 digest of each address of Sources, in hexadecimal
Digests ==
    << "51c40f6ad4d5952cc195116c877faef3",
       "0740b31a229d00825ba3756ddee34c21",
       "76f7b1862ebe12bbe40698bb743b3eb2",
       "3c3e5179a5ebaad72ee18b80768d157c",
       "0ff91071162233f0c63a4cda866646d2",
       "cbeddad411898071357861af566f7778",
       "795816e9d034f52e91d4cc91e156695d",
       "daadeaff6fce52a6aa7e47a98c8baa81",
       "44d4a87fa19e7d3a754b1336755107f6",
       "71a230398ab313856bfcc1a44cfa563e",
       "a0dba6265527f977ec30e445a5dc1e80",
       "c55c0282c33fa2928ce3ac100e6d4152",
       "75f9168536f6c0ef1931a6b5b745f940" >>

\* the addresses the cache API is exercised with
Addresses == {DART_ARCHIVE_URL, FLUTTER_RELEASES_URL}

----------------------------------------------------------------------------
(* Pages: raw content as a sequence of markup elements *)

Elem(tag, text) == [tag |-> tag, text |-> text]

EmptyDoc == << >>
PageA == <<Elem("title", "A"), Elem("p", "hi")>>
PageB == <<Elem("script", "x()"), Elem("p", "y \"\\\n z")>>
\* <title></title>: soup.title is a tag, soup.title.string is None
PageBlankTitle == <<Elem("title", ""), Elem("p", "q")>>
\* a page with nothing but a script
PageNoText == <<Elem("script", "x()")>>
\* a page whose text is 25 characters long
PageHello == <<Elem("p", "Hello world, this is long")>>

\* contents the cache API is exercised with
Contents == {EmptyDoc, PageA, PageB}

RECURSIVE RawLen(_)
\* len(content): <tag>text</tag> per element
RawLen(doc) ==
    IF doc = << >> THEN 0
    ELSE 2 * Len(Head(doc).tag) + 5 + Len(Head(doc).text) + RawLen(Tail(doc))

----------------------------------------------------------------------------
(* Optional[str] *)

None == [hit |-> FALSE]
Some(c) == [hit |-> TRUE, content |-> c]

----------------------------------------------------------------------------
(* CacheManager *)

ttl == ttl_hours

md5_same_for_all(url) == Digests[1]

\* hashlib.md5(url.encode()).hexdigest()
md5(url) == Digests[CHOOSE k \in 1..Len(Sources) : Sources[k] = url]

_get_cache_key(url) == md5(url)

_get_cache_path(cache_key) == "data/cache/" \o cache_key \o ".json"

PathOf(url) == _get_cache_path(_get_cache_key(url))

Paths == {PathOf(u) : u \in Addresses}

RECURSIVE json_escape(_)
\* json.dump of a str with ensure_ascii=False, without the enclosing quotes
json_escape(s) ==
    IF s = "" THEN ""
    ELSE LET c == SubSeq(s, 1, 1)
             e == CASE c = "\"" -> "\\\""
                    [] c = "\\" -> "\\\\"
                    [] c = "\n" -> "\\n"
                    [] c = "\t" -> "\\t"
                    [] OTHER -> c
         IN  e \o json_escape(SubSeq(s, 2, Len(s)))

RECURSIVE json_unescape(_)
\* json.load of the body of a JSON string
json_unescape(s) ==
    IF s = "" THEN ""
    ELSE IF SubSeq(s, 1, 1) = "\\" /\ Len(s) >= 2
    THEN LET d == SubSeq(s, 2, 2)
             c == CASE d = "n" -> "\n"
                    [] d = "t" -> "\t"
                    [] OTHER -> d
         IN  c \o json_unescape(SubSeq(s, 3, Len(s)))
    ELSE SubSeq(s, 1, 1) \o json_unescape(SubSeq(s, 2, Len(s)))

\* the content string, element by element, as json.dump writes it
dump_content(doc) ==
    [k \in 1..Len(doc) |-> Elem(json_escape(doc[k].tag), json_escape(doc[k].text))]

load_content_verbatim(doc) == doc

\* the content string, element by element, as json.load reads it
load_content(doc) ==
    [k \in 1..Len(doc) |-> Elem(json_unescape(doc[k].tag), json_unescape(doc[k].text))]

\* datetime.isoformat(): the date and the time of day
isoformat(t) == [date |-> t \div 24, hour |-> t % 24]

\* datetime.fromisoformat
fromisoformat(d) == d.date * 24 + d.hour

Absent == [kind |-> "absent"]
Partial(n) == [kind |-> "partial", size |-> n]

\* the file json.dump(cache_data, f) leaves; the addresses of Sources hold
\* no character that json.dump escapes
Record(url, content, timestamp) ==
    [kind |-> "record", url |-> url, content |-> dump_content(content),
     timestamp |-> isoformat(timestamp)]

json_load_content_as_stored(f) ==
    [url |-> f.url, content |-> f.content, cached_time |-> fromisoformat(f.timestamp)]

\* json.load(f) of a complete record, with cached_time parsed
json_load(f) ==
    [url |-> f.url, content |-> load_content(f.content),
     cached_time |-> fromisoformat(f.timestamp)]

\* f.stat().st_size
st_size(f) ==
    CASE f.kind = "absent" -> 0
      [] f.kind = "partial" -> f.size
      [] f.kind = "record" -> JsonOverhead + Len(f.url) + RawLen(f.content)

glob_records_only(fs) == {p \in DOMAIN fs : fs[p].kind = "record"}

\* cache_dir.glob("*.json")
glob(fs) == {p \in DOMAIN fs : fs[p].kind # "absent"}

expired_at_ttl(timestamp, t) == t - timestamp >= ttl

\* datetime.now() - cached_time > self.ttl
expired(timestamp, t) == t - timestamp > ttl

get_keeps_expired(fs, url, t) ==
    LET f == fs[PathOf(url)]
    IN  IF f.kind = "record" /\ ~expired(json_load(f).cached_time, t)
        THEN [fs |-> fs, result |-> Some(json_load(f).content), src |-> json_load(f).url]
        ELSE [fs |-> fs, result |-> None, src |-> ""]

get_serves_expired(fs, url, t) ==
    LET f == fs[PathOf(url)]
    IN  IF f.kind = "record"
        THEN [fs |-> fs, result |-> Some(json_load(f).content), src |-> json_load(f).url]
        ELSE [fs |-> fs, result |-> None, src |-> ""]

get_reads_partial(fs, url, t) ==
    LET path == PathOf(url)
        f == fs[path]
    IN  IF f.kind = "absent"
        THEN [fs |-> fs, result |-> None, src |-> ""]
        ELSE IF f.kind = "partial"
        THEN [fs |-> fs, result |-> Some(<<Elem("p", "?")>>), src |-> url]
        ELSE LET cache_data == json_load(f)
             IN  IF expired(cache_data.cached_time, t)
                 THEN [fs |-> [fs EXCEPT ![path] = Absent], result |-> None, src |-> ""]
                 ELSE [fs |-> fs, result |-> Some(cache_data.content),
                       src |-> cache_data.url]

get_refreshes_on_hit(fs, url, t) ==
    LET path == PathOf(url)
        f == fs[path]
    IN  IF f.kind = "absent"
        THEN [fs |-> fs, result |-> None, src |-> ""]
        ELSE IF f.kind = "partial"
        THEN [fs |-> fs, result |-> None, src |-> ""]
        ELSE LET cache_data == json_load(f)
             IN  IF expired(cache_data.cached_time, t)
                 THEN [fs |-> [fs EXCEPT ![path] = Absent], result |-> None, src |-> ""]
                 ELSE [fs |-> [fs EXCEPT ![path] =
                                  Record(cache_data.url, cache_data.content, t)],
                       result |-> Some(cache_data.content), src |-> cache_data.url]

\* CacheManager.get: the files afterwards, the value returned, and the
\* 'url' field of the record the value was read from
CacheManager_get(fs, url, t) ==
    LET path == PathOf(url)
        f == fs[path]
    IN  IF f.kind = "absent"
        THEN [fs |-> fs, result |-> None, src |-> ""]
        ELSE IF f.kind = "partial"
        THEN \* json.load raises, caught: the file stays
             [fs |-> fs, result |-> None, src |-> ""]
        ELSE LET cache_data == json_load(f)
             IN  IF expired(cache_data.cached_time, t)
                 THEN [fs |-> [fs EXCEPT ![path] = Absent], result |-> None, src |-> ""]
                 ELSE [fs |-> fs, result |-> Some(cache_data.content),
                       src |-> cache_data.url]

\* outcomes of open(cache_path, 'w') followed by json.dump
WriteOutcomes ==
    {[io |-> "ok", left |-> 0], [io |-> "open_fails", left |-> 0]}
        \cup {[io |-> "dump_fails", left |-> n] : n \in 0..MaxPartial}

set_reports_true(fs, url, content, t, w) ==
    LET path == PathOf(url)
    IN  CASE w.io = "ok" ->
                [fs |-> [fs EXCEPT ![path] = Record(url, content, t)], result |-> TRUE]
          [] w.io = "open_fails" -> [fs |-> fs, result |-> FALSE]
          [] w.io = "dump_fails" ->
                [fs |-> [fs EXCEPT ![path] = Partial(w.left)], result |-> TRUE]

\* CacheManager.set under write outcome w
CacheManager_set(fs, url, content, t, w) ==
    LET path == PathOf(url)
    IN  CASE w.io = "ok" ->
                [fs |-> [fs EXCEPT ![path] = Record(url, content, t)], result |-> TRUE]
          [] w.io = "open_fails" -> [fs |-> fs, result |-> FALSE]
          [] w.io = "dump_fails" ->
                \* open truncated the file, the dump stopped part-way
                [fs |-> [fs EXCEPT ![path] = Partial(w.left)], result |-> FALSE]

invalidate_skips_unlink(fs, url, t) == [fs |-> fs, result |-> TRUE]

\* CacheManager.invalidate
CacheManager_invalidate(fs, url, t) ==
    LET path == PathOf(url)
    IN  IF fs[path].kind # "absent"
        THEN [fs |-> [fs EXCEPT ![path] = Absent], result |-> TRUE]
        ELSE [fs |-> fs, result |-> TRUE]

clear_all_keeps_partial(fs) ==
    [fs |-> [p \in DOMAIN fs |-> IF fs[p].kind = "record" THEN Absent ELSE fs[p]],
     result |-> TRUE]

\* CacheManager.clear_all
CacheManager_clear_all(fs) ==
    [fs |-> [p \in DOMAIN fs |-> IF p \in glob(fs) THEN Absent ELSE fs[p]],
     result |-> TRUE]

RECURSIVE SumSizes(_, _)
SumSizes(fs, ps) ==
    IF ps = {} THEN 0
    ELSE LET p == CHOOSE q \in ps : TRUE
         IN  st_size(fs[p]) + SumSizes(fs, ps \ {p})

\* CacheManager.get_cache_stats; total_size_mb is kept in hundredths
CacheManager_get_cache_stats(fs) ==
    LET cache_files == glob(fs)
        total_size == SumSizes(fs, cache_files)
    IN  [total_items |-> Cardinality(cache_files),
         total_size_bytes |-> total_size,
         total_size_mb |-> (total_size * 100 + 524288) \div (1024 * 1024)]

----------------------------------------------------------------------------
(* The cache API as actions: each call is one step *)

Idle == [op |-> "idle"]

NoDocumentation ==
    [dart_archive |-> None, flutter_releases |-> None, educational_resources |-> << >>]

NoContext == [raised |-> FALSE, parts |-> << >>]

\* a thread that is in no call
NoCall == [pc |-> "idle"]

\* no thread is in a call
NoThreads == [reader |-> NoCall, writer |-> NoCall]

\* no run is going on
RunIdle ==
    /\ pc = "idle"
    /\ i = 1
    /\ documentation = NoDocumentation
    /\ attempts = << >>
    /\ context = NoContext
    /\ faults = 0

Init ==
    /\ files = [p \in Paths |-> Absent]
    /\ now = 0
    /\ ret = Idle
    /\ written = [u \in Addresses |-> None]
    /\ gone = [u \in Addresses |-> "no"]
    /\ RunIdle
    /\ threads = NoThreads

get(url) ==
    LET r == CacheManager_get(files, url, now)
    IN  /\ files' = r.fs
        /\ ret' = [op |-> "get", url |-> url, result |-> r.result, src |-> r.src]
        /\ gone' = [gone EXCEPT ![url] =
                       IF files[PathOf(url)].kind = "record" /\ r.fs # files
                       THEN "expiry" ELSE @]
        /\ UNCHANGED <<now, written>>
        /\ UNCHANGED <<runVars, threads>>

set(url, content) ==
    \E w \in WriteOutcomes :
        LET r == CacheManager_set(files, url, content, now, w)
        IN  /\ files' = r.fs
            /\ ret' = [op |-> "set", url |-> url, content |-> content,
                       result |-> r.result, io |-> w.io]
            /\ written' = [written EXCEPT ![url] =
                              IF r.result THEN [hit |-> TRUE, content |-> content, at |-> now]
                              ELSE None]
            /\ gone' = [gone EXCEPT ![url] = "no"]
            /\ UNCHANGED now
            /\ UNCHANGED <<runVars, threads>>

invalidate(url) ==
    LET r == CacheManager_invalidate(files, url, now)
    IN  /\ files' = r.fs
        /\ ret' = [op |-> "invalidate", url |-> url, result |-> r.result]
        /\ written' = [written EXCEPT ![url] = None]
        /\ gone' = [gone EXCEPT ![url] = "invalidate"]
        /\ UNCHANGED now
        /\ UNCHANGED <<runVars, threads>>

clear_all ==
    LET r == CacheManager_clear_all(files)
    IN  /\ files' = r.fs
        /\ ret' = [op |-> "clear_all", result |-> r.result]
        /\ written' = [u \in DOMAIN written |-> None]
        /\ gone' = [u \in DOMAIN gone |->
                       IF files[PathOf(u)].kind = "absent"
                       THEN "clear_all_nothing" ELSE "clear_all"]
        /\ UNCHANGED now
        /\ UNCHANGED <<runVars, threads>>

get_cache_stats ==
    /\ ret' = [op |-> "get_cache_stats", result |-> CacheManager_get_cache_stats(files)]
    /\ UNCHANGED <<files, now, written, gone>>
    /\ UNCHANGED <<runVars, threads>>

\* the clock advances between calls
Tick ==
    \E d \in {12, 13} :
        /\ now + d <= MaxTime
        /\ now' = now + d
        /\ ret' = Idle
        /\ UNCHANGED <<files, written, gone>>
        /\ UNCHANGED <<runVars, threads>>

Get == \E url \in Addresses : get(url)
Set == \E url \in Addresses, content \in Contents : set(url, content)
Invalidate == \E url \in Addresses : invalidate(url)

Next ==
    \/ Get
    \/ Set
    \/ Invalidate
    \/ clear_all
    \/ get_cache_stats
    \/ Tick

Spec == Init /\ [][Next]_vars

----------------------------------------------------------------------------
(* DocScraper._fetch_url *)

\* what session.get(url, timeout=15) followed by raise_for_status() gives:
\* a RequestException, or response.text
NetDocs == {EmptyDoc, PageA, PageB}

NetOutcomes ==
    {[ok |-> FALSE, text |-> EmptyDoc]} \cup {[ok |-> TRUE, text |-> d] : d \in NetDocs}

\* "if cached_content:": None and the empty string are both false
truthy(opt) == opt.hit /\ opt.content # EmptyDoc

fetch_url_failure_invalidates(fs, url, use_cache, t, net, w) ==
    LET g == IF use_cache THEN CacheManager_get(fs, url, t)
             ELSE [fs |-> fs, result |-> None, src |-> ""]
    IN  IF use_cache /\ truthy(g.result)
        THEN [fs |-> g.fs, result |-> g.result, network |-> 0, cache_set |-> "skipped"]
        ELSE IF ~net.ok
        THEN [fs |-> CacheManager_invalidate(g.fs, url, t).fs, result |-> None,
              network |-> 1, cache_set |-> "skipped"]
        ELSE LET s == IF use_cache THEN CacheManager_set(g.fs, url, net.text, t, w)
                      ELSE [fs |-> g.fs, result |-> FALSE]
             IN  [fs |-> s.fs, result |-> Some(net.text), network |-> 1,
                  cache_set |-> IF ~use_cache THEN "skipped"
                                ELSE IF s.result THEN "ok" ELSE "failed"]

fetch_url_needs_cache(fs, url, use_cache, t, net, w) ==
    LET g == IF use_cache THEN CacheManager_get(fs, url, t)
             ELSE [fs |-> fs, result |-> None, src |-> ""]
    IN  IF use_cache /\ truthy(g.result)
        THEN [fs |-> g.fs, result |-> g.result, network |-> 0, cache_set |-> "skipped"]
        ELSE IF ~net.ok
        THEN [fs |-> g.fs, result |-> None, network |-> 1, cache_set |-> "skipped"]
        ELSE LET s == IF use_cache THEN CacheManager_set(g.fs, url, net.text, t, w)
                      ELSE [fs |-> g.fs, result |-> FALSE]
             IN  [fs |-> s.fs,
                  result |-> IF use_cache /\ ~s.result THEN None ELSE Some(net.text),
                  network |-> 1,
                  cache_set |-> IF ~use_cache THEN "skipped"
                                ELSE IF s.result THEN "ok" ELSE "failed"]

\* DocScraper._fetch_url under network outcome net and write outcome w: the
\* files afterwards, the value returned, the number of network retrievals
\* and what became of the cache write
DocScraper_fetch_url(fs, url, use_cache, t, net, w) ==
    LET g == IF use_cache THEN CacheManager_get(fs, url, t)
             ELSE [fs |-> fs, result |-> None, src |-> ""]
    IN  IF use_cache /\ truthy(g.result)
        THEN [fs |-> g.fs, result |-> g.result, network |-> 0, cache_set |-> "skipped"]
        ELSE IF ~net.ok
        THEN [fs |-> g.fs, result |-> None, network |-> 1, cache_set |-> "skipped"]
        ELSE LET s == IF use_cache THEN CacheManager_set(g.fs, url, net.text, t, w)
                      ELSE [fs |-> g.fs, result |-> FALSE]
             IN  [fs |-> s.fs, result |-> Some(net.text), network |-> 1,
                  cache_set |-> IF ~use_cache THEN "skipped"
                                ELSE IF s.result THEN "ok" ELSE "failed"]

\* the bookkeeping of written and gone for a _fetch_url call
WrittenAfterFetch(url, r) ==
    [written EXCEPT ![url] =
        CASE r.cache_set = "ok" -> [hit |-> TRUE, content |-> r.result.content, at |-> now]
          [] r.cache_set = "failed" -> None
          [] OTHER -> @]

GoneAfterFetch(url, r) ==
    [gone EXCEPT ![url] =
        IF r.cache_set # "skipped" THEN "no"
        ELSE IF files[PathOf(url)].kind = "record" /\ r.fs[PathOf(url)].kind = "absent"
        THEN "expiry" ELSE @]

\* every call site passes use_cache = True
_fetch_url(url) ==
    \E net \in NetOutcomes, w \in WriteOutcomes :
        LET r == DocScraper_fetch_url(files, url, TRUE, now, net, w)
        IN  /\ files' = r.fs
            /\ ret' = [op |-> "_fetch_url", url |-> url, result |-> r.result,
                       network |-> r.network, cache_set |-> r.cache_set]
            /\ written' = WrittenAfterFetch(url, r)
            /\ gone' = GoneAfterFetch(url, r)
            /\ UNCHANGED now
            /\ UNCHANGED <<runVars, threads>>

Fetch == \E url \in Addresses : _fetch_url(url)

NextFetch ==
    \/ Fetch
    \/ Invalidate
    \/ clear_all
    \/ Tick

SpecFetch == Init /\ [][NextFetch]_vars

----------------------------------------------------------------------------
(* DocScraper: extraction *)

Min(a, b) == IF a < b THEN a ELSE b

\* the Python slice s[:n] of a string or a list
Slice(s, n) == SubSeq(s, 1, Min(n, Len(s)))

IsSpace(c) == c \in {" ", "\n", "\t"}

RECURSIVE Squeeze(_, _)
\* s with every run of whitespace turned into one space, appended to acc
Squeeze(s, acc) ==
    IF s = "" THEN acc
    ELSE LET c == SubSeq(s, 1, 1)
             rest == SubSeq(s, 2, Len(s))
         IN  IF IsSpace(c)
             THEN Squeeze(rest, IF acc = "" \/ SubSeq(acc, Len(acc), Len(acc)) = " "
                                THEN acc ELSE acc \o " ")
             ELSE Squeeze(rest, acc \o c)

\* ' '.join(text.split())
collapse_whitespace(text) ==
    LET sq == Squeeze(text, "")
    IN  IF sq # "" /\ SubSeq(sq, Len(sq), Len(sq)) = " "
        THEN SubSeq(sq, 1, Len(sq) - 1) ELSE sq

\* for tag in soup(["script", "style", "nav", "footer", "header"]): tag.decompose()
Decomposed == {"script", "style", "nav", "footer", "header"}

RECURSIVE get_text(_)
\* soup.get_text(strip=True, separator=' '): the strings of the elements
\* that are left, a space between them
get_text(doc) ==
    IF doc = << >> THEN ""
    ELSE IF Head(doc).tag \in Decomposed THEN get_text(Tail(doc))
    ELSE Head(doc).text \o " " \o get_text(Tail(doc))

extract_untruncated(html, max_chars) == collapse_whitespace(get_text(html))

\* DocScraper._extract_text_from_html
_extract_text_from_html(html, max_chars) ==
    Slice(collapse_whitespace(get_text(html)), max_chars)

\* soup.title.string if soup.title else default: soup.title is the first
\* title element, and the string of an element without text is None
title_or(html, default) ==
    LET titles == SelectSeq(html, LAMBDA e : e.tag = "title")
    IN  IF titles = << >> THEN Some(default)
        ELSE IF Head(titles).text = "" THEN None
        ELSE Some(Head(titles).text)

\* the dictionary the three scrape_ methods build from a page
scraped(html, url, default_title, max_chars) ==
    [url |-> url,
     title |-> title_or(html, default_title),
     content |-> _extract_text_from_html(html, max_chars)]

\* DocScraper.scrape_dart_archive, given what _fetch_url returned
scrape_dart_archive_result(html) ==
    IF ~truthy(html) THEN None
    ELSE Some(scraped(html.content, DART_ARCHIVE_URL, "Dart SDK Archive", PrimaryBudget))

\* DocScraper.scrape_flutter_releases, given what _fetch_url returned
scrape_flutter_releases_result(html) ==
    IF ~truthy(html) THEN None
    ELSE Some(scraped(html.content, FLUTTER_RELEASES_URL, "Flutter Release Notes",
                      PrimaryBudget))

\* one iteration of the loop of scrape_educational_resources: results
\* afterwards.  The result is appended before its title is printed, so a
\* title of None (a TypeError in the print, caught) leaves it in the list.
scrape_educational_iteration(results, url, html) ==
    IF ~truthy(html) THEN results
    ELSE Append(results, scraped(html.content, url, url, EducationalBudget))

----------------------------------------------------------------------------
(* DocScraper.build_context_summary *)

Part(kind, n, title, url, content) ==
    [kind |-> kind, n |-> n, title |-> title, url |-> url, content |-> content]

RECURSIVE ResourceParts(_, _)
\* the parts of the resources from the n-th on
ResourceParts(resources, n) ==
    IF n > Len(resources) THEN << >>
    ELSE <<Part("resource", n, Slice(resources[n].title.content, SummaryTitleChars),
                resources[n].url,
                Slice(resources[n].content, EducationalSummaryChars))>>
            \o ResourceParts(resources, n + 1)

\* context_parts, which the method joins with newlines, when the loop runs
\* over the resources included; raised when it ends in the TypeError of
\* None[:60]
context_parts(doc, included) ==
    LET dart == IF doc.dart_archive.hit
                THEN <<Part("dart_archive", 0, "", doc.dart_archive.content.url,
                            Slice(doc.dart_archive.content.content, PrimarySummaryChars))>>
                ELSE << >>
        flutter == IF doc.flutter_releases.hit
                   THEN <<Part("flutter_releases", 0, "", doc.flutter_releases.content.url,
                               Slice(doc.flutter_releases.content.content,
                                     PrimarySummaryChars))>>
                   ELSE << >>
    IN  IF \E n \in 1..Len(included) : ~included[n].title.hit
        THEN [raised |-> TRUE, parts |-> << >>]
        ELSE [raised |-> FALSE,
              parts |-> <<Part("heading", 0, "", "", "")>> \o dart \o flutter
                            \o (IF doc.educational_resources # << >>
                                THEN <<Part("educational_heading", 0, "", "", "")>>
                                ELSE << >>)
                            \o ResourceParts(included, 1)]

build_context_summary_uncapped(doc) == context_parts(doc, doc.educational_resources)

\* DocScraper.build_context_summary
build_context_summary(doc) ==
    context_parts(doc, Slice(doc.educational_resources, SummaryCap))

----------------------------------------------------------------------------
(* A run: get_all_documentation, then build_context_summary, as the handlers
   scrape_documentation and initialize_tutor call them *)

RunDocs == {PageA, EmptyDoc, PageB, PageBlankTitle, PageNoText}

RunNetOutcomes ==
    {[ok |-> FALSE, text |-> EmptyDoc]} \cup {[ok |-> TRUE, text |-> d] : d \in RunDocs}

NominalNet == [ok |-> TRUE, text |-> PageA]
NominalWrite == [io |-> "ok", left |-> 0]

\* what the environment's choice costs of the budget of faults
Cost(net, w) ==
    (IF net = NominalNet THEN 0 ELSE 1) + (IF w = NominalWrite THEN 0 ELSE 1)

\* a choice the call did not consult is the nominal one
Consulted(r, net, w) ==
    /\ r.network = 0 => net = NominalNet
    /\ r.cache_set = "skipped" => w = NominalWrite

Outcome(r) ==
    [outcome |-> IF r.network = 0 THEN "cache_hit"
                 ELSE IF r.result.hit THEN "fetched" ELSE "failed",
     empty |-> r.result.hit /\ r.result.content = EmptyDoc,
     cache_set |-> r.cache_set]

\* the _fetch_url call of a step of the run
FetchInRun(url, r, net, w) ==
    /\ Consulted(r, net, w)
    /\ faults + Cost(net, w) <= MaxFaults
    /\ faults' = faults + Cost(net, w)
    /\ files' = r.fs
    /\ ret' = [op |-> "_fetch_url", url |-> url, result |-> r.result,
               network |-> r.network, cache_set |-> r.cache_set]
    /\ written' = WrittenAfterFetch(url, r)
    /\ gone' = GoneAfterFetch(url, r)
    /\ attempts' = Append(attempts, [url |-> url] @@ Outcome(r))
    /\ UNCHANGED <<now, context, threads>>

scrape_dart_archive ==
    /\ pc = "dart_archive"
    /\ \E net \in RunNetOutcomes, w \in WriteOutcomes :
          LET r == DocScraper_fetch_url(files, DART_ARCHIVE_URL, TRUE, now, net, w)
          IN  /\ FetchInRun(DART_ARCHIVE_URL, r, net, w)
              /\ documentation' = [documentation EXCEPT
                                      !.dart_archive = scrape_dart_archive_result(r.result)]
    /\ pc' = "flutter_releases"
    /\ UNCHANGED i

scrape_flutter_releases ==
    /\ pc = "flutter_releases"
    /\ \E net \in RunNetOutcomes, w \in WriteOutcomes :
          LET r == DocScraper_fetch_url(files, FLUTTER_RELEASES_URL, TRUE, now, net, w)
          IN  /\ FetchInRun(FLUTTER_RELEASES_URL, r, net, w)
              /\ documentation' = [documentation EXCEPT
                                      !.flutter_releases =
                                          scrape_flutter_releases_result(r.result)]
    /\ pc' = "educational_resources"
    /\ UNCHANGED i

enumerate_skipping(n) == n + 2

\* for i, url in enumerate(self.EDUCATIONAL_URLS, 1): the index after n
enumerate_next(n) == n + 1

\* one iteration of the loop of scrape_educational_resources
scrape_educational_resources ==
    /\ pc = "educational_resources"
    /\ i <= Len(EDUCATIONAL_URLS)
    /\ \E net \in RunNetOutcomes, w \in WriteOutcomes :
          LET url == EDUCATIONAL_URLS[i]
              r == DocScraper_fetch_url(files, url, TRUE, now, net, w)
          IN  /\ FetchInRun(url, r, net, w)
              /\ documentation' = [documentation EXCEPT
                                      !.educational_resources =
                                          scrape_educational_iteration(@, url, r.result)]
    /\ i' = enumerate_next(i)
    /\ pc' = IF enumerate_next(i) > Len(EDUCATIONAL_URLS)
             THEN "build_context_summary" ELSE pc

\* the handler passes what get_all_documentation returned to
\* build_context_summary
summarise ==
    /\ pc = "build_context_summary"
    /\ context' = build_context_summary(documentation)
    /\ pc' = "done"
    /\ UNCHANGED <<cacheVars, i, documentation, attempts, faults, threads>>

AllSources == {Sources[k] : k \in 1..Len(Sources)}

\* what earlier runs left in the cache at hour 0, and the hour of this run:
\* nothing; every page, still fresh; every page, expired; three pages, at
\* the edge of the TTL
InitCaches ==
    {[cached |-> {}, hour |-> 0],
     [cached |-> AllSources, hour |-> 0],
     [cached |-> AllSources, hour |-> ttl + 1],
     [cached |-> {Sources[2], Sources[4], Sources[13]}, hour |-> ttl]}

InitRun ==
    \E c \in InitCaches :
      LET cached == c.cached
          t == c.hour
      IN
        /\ files = [p \in {PathOf(u) : u \in AllSources} |->
                      IF \E u \in cached : PathOf(u) = p
                      THEN Record(CHOOSE u \in cached : PathOf(u) = p, PageA, 0)
                      ELSE Absent]
        /\ now = t
        /\ ret = Idle
        /\ written = [u \in AllSources |->
                        IF u \in cached THEN [hit |-> TRUE, content |-> PageA, at |-> 0]
                        ELSE None]
        /\ gone = [u \in AllSources |-> "no"]
        /\ pc = "dart_archive"
        /\ i = 1
        /\ documentation = NoDocumentation
        /\ attempts = << >>
        /\ context = NoContext
        /\ faults = 0
        /\ threads = NoThreads

NextRun ==
    \/ scrape_dart_archive
    \/ scrape_flutter_releases
    \/ scrape_educational_resources
    \/ summarise

SpecRun == InitRun /\ [][NextRun]_vars

----------------------------------------------------------------------------
(* Configuration: the constructor CacheManager(cache_dir, ttl_hours) with a
   TTL drawn from ConfigTtls, then a run of get_all_documentation and
   build_context_summary by a scraper whose EDUCATIONAL_URLS is a prefix of
   the list, the empty one included.  The cache directory is new and the run
   is at hour 0, so every lookup of the run finds no file, whatever the TTL. *)

ConfigTtls == {-1, 0, 1, ttl_hours}

ConfigLists == {SubSeq(EDUCATIONAL_URLS, 1, n) : n \in 0..Len(EDUCATIONAL_URLS)}

ConfigNets == {[ok |-> FALSE, text |-> EmptyDoc], NominalNet}

NoCache == [constructed |-> FALSE]

\* CacheManager.__init__: timedelta(hours=ttl_hours) takes any integer, and
\* nothing else looks at the argument
CacheManager_init(cache_dir, hours) ==
    [constructed |-> TRUE, raised |-> FALSE, cache_dir |-> cache_dir, ttl |-> hours]

RECURSIVE scrape_educational_over(_, _, _, _, _, _)
\* the loop of scrape_educational_resources over urls from the n-th on: the
\* files and the results afterwards
scrape_educational_over(urls, n, fs, t, net, results) ==
    IF n > Len(urls) THEN [fs |-> fs, results |-> results]
    ELSE LET r == DocScraper_fetch_url(fs, urls[n], TRUE, t, net, NominalWrite)
         IN  scrape_educational_over(urls, enumerate_next(n), r.fs, t, net,
                                     scrape_educational_iteration(results, urls[n],
                                                                  r.result))

\* get_all_documentation with self.EDUCATIONAL_URLS = urls: the files and
\* the dictionary afterwards; no branch of it raises
get_all_documentation(urls, fs, t, net) ==
    LET dart == DocScraper_fetch_url(fs, DART_ARCHIVE_URL, TRUE, t, net, NominalWrite)
        flutter == DocScraper_fetch_url(dart.fs, FLUTTER_RELEASES_URL, TRUE, t, net,
                                        NominalWrite)
        educational == scrape_educational_over(urls, 1, flutter.fs, t, net, << >>)
    IN  [fs |-> educational.fs,
         raised |-> FALSE,
         documentation |->
             [dart_archive |-> scrape_dart_archive_result(dart.result),
              flutter_releases |-> scrape_flutter_releases_result(flutter.result),
              educational_resources |-> educational.results]]

InitConfig ==
    /\ files = [p \in {PathOf(u) : u \in AllSources} |-> Absent]
    /\ now = 0
    /\ \E hours \in ConfigTtls, urls \in ConfigLists, net \in ConfigNets :
          ret = [op |-> "config", ttl_hours |-> hours, urls |-> urls, net |-> net,
                 cache |-> NoCache, run_raised |-> FALSE]
    /\ written = [u \in AllSources |-> None]
    /\ gone = [u \in AllSources |-> "no"]
    /\ pc = "construct"
    /\ i = 1
    /\ documentation = NoDocumentation
    /\ attempts = << >>
    /\ context = NoContext
    /\ faults = 0
    /\ threads = NoThreads

\* cache_manager = CacheManager(ttl_hours=...); DocScraper(cache_manager)
construct ==
    /\ pc = "construct"
    /\ ret' = [ret EXCEPT !.cache = CacheManager_init("data/cache", ret.ttl_hours)]
    /\ pc' = IF ret'.cache.raised THEN "done" ELSE "get_all_documentation"
    /\ UNCHANGED <<files, now, written, gone>>
    /\ UNCHANGED <<i, documentation, attempts, context, faults, threads>>

\* documentation = doc_scraper.get_all_documentation()
run_configured ==
    /\ pc = "get_all_documentation"
    /\ LET r == get_all_documentation(ret.urls, files, now, ret.net)
       IN  /\ files' = r.fs
           /\ documentation' = r.documentation
           /\ ret' = [ret EXCEPT !.run_raised = r.raised]
           /\ written' = [u \in AllSources |->
                             IF r.fs[PathOf(u)].kind = "record"
                             THEN [hit |-> TRUE, content |-> ret.net.text, at |-> now]
                             ELSE None]
           /\ pc' = IF r.raised THEN "done" ELSE "build_context_summary"
    /\ UNCHANGED <<now, gone, i, attempts, context, faults, threads>>

NextConfig ==
    \/ construct
    \/ run_configured
    \/ summarise

SpecConfig == InitConfig /\ [][NextConfig]_vars

----------------------------------------------------------------------------
(* Extraction under a budget: a page goes through the dictionary a scrape_
   method builds, with max_chars drawn from 0..MaxBudget, and then through
   build_context_summary *)

ExtractDocs == {PageHello, PageA, PageB, PageNoText}

SourceKinds == {"dart_archive", "flutter_releases", "educational_resources"}

InitExtract ==
    /\ files = [p \in Paths |-> Absent]
    /\ now = 0
    /\ \E kind \in SourceKinds, html \in ExtractDocs, max_chars \in 0..MaxBudget :
          ret = [op |-> "page", kind |-> kind, html |-> html, max_chars |-> max_chars]
    /\ written = [u \in Addresses |-> None]
    /\ gone = [u \in Addresses |-> "no"]
    /\ pc = "extract"
    /\ i = 1
    /\ documentation = NoDocumentation
    /\ attempts = << >>
    /\ context = NoContext
    /\ faults = 0
    /\ threads = NoThreads

\* the result dictionary of the page, as scrape_dart_archive,
\* scrape_flutter_releases or an iteration of scrape_educational_resources
\* builds it, put into the documentation
extract_section ==
    /\ pc = "extract"
    /\ documentation' =
          CASE ret.kind = "dart_archive" ->
                 [documentation EXCEPT !.dart_archive =
                     Some(scraped(ret.html, DART_ARCHIVE_URL, "Dart SDK Archive",
                                  ret.max_chars))]
            [] ret.kind = "flutter_releases" ->
                 [documentation EXCEPT !.flutter_releases =
                     Some(scraped(ret.html, FLUTTER_RELEASES_URL, "Flutter Release Notes",
                                  ret.max_chars))]
            [] ret.kind = "educational_resources" ->
                 [documentation EXCEPT !.educational_resources =
                     Append(@, scraped(ret.html, EDUCATIONAL_URLS[1], EDUCATIONAL_URLS[1],
                                       ret.max_chars))]
    /\ pc' = "build_context_summary"
    /\ UNCHANGED <<cacheVars, i, attempts, context, faults, threads>>

NextExtract ==
    \/ extract_section
    \/ summarise

SpecExtract == InitExtract /\ [][NextExtract]_vars

----------------------------------------------------------------------------
(* The two paths of a page to its section: the raw content is either in the
   cache already (hit) or comes from the network (miss); _fetch_url, then
   the scrape_ method of the source with max_chars drawn from 0..MaxBudget,
   then build_context_summary *)

PathDocs == {PageHello, PageA, PageB, PageNoText, EmptyDoc}

SourceUrl(kind) ==
    CASE kind = "dart_archive" -> DART_ARCHIVE_URL
      [] kind = "flutter_releases" -> FLUTTER_RELEASES_URL
      [] kind = "educational_resources" -> EDUCATIONAL_URLS[1]

InitPaths ==
    /\ now = 0
    /\ \E kind \in SourceKinds, html \in PathDocs, max_chars \in 0..MaxBudget,
          path \in {"hit", "miss"} :
          /\ ret = [op |-> "page", kind |-> kind, html |-> html,
                    max_chars |-> max_chars, path |-> path]
          /\ files = [p \in {PathOf(u) : u \in AllSources} |->
                        IF path = "hit" /\ p = PathOf(SourceUrl(kind))
                        THEN Record(SourceUrl(kind), html, 0) ELSE Absent]
          /\ written = [u \in AllSources |->
                          IF path = "hit" /\ u = SourceUrl(kind)
                          THEN [hit |-> TRUE, content |-> html, at |-> 0] ELSE None]
    /\ gone = [u \in AllSources |-> "no"]
    /\ pc = "fetch"
    /\ i = 1
    /\ documentation = NoDocumentation
    /\ attempts = << >>
    /\ context = NoContext
    /\ faults = 0
    /\ threads = NoThreads

\* html = self._fetch_url(url), the server answering with the page
fetch_page ==
    /\ pc = "fetch"
    /\ LET url == SourceUrl(ret.kind)
           r == DocScraper_fetch_url(files, url, TRUE, now,
                                     [ok |-> TRUE, text |-> ret.html], NominalWrite)
       IN  /\ files' = r.fs
           /\ ret' = [op |-> "_fetch_url", kind |-> ret.kind, html |-> ret.html,
                      max_chars |-> ret.max_chars, path |-> ret.path, url |-> url,
                      result |-> r.result, network |-> r.network,
                      cache_set |-> r.cache_set]
           /\ written' = WrittenAfterFetch(url, r)
           /\ gone' = GoneAfterFetch(url, r)
           /\ attempts' = Append(attempts, [url |-> url] @@ Outcome(r))
    /\ pc' = "scrape"
    /\ UNCHANGED <<now, i, documentation, context, faults, threads>>

\* the rest of the scrape_ method: nothing for a falsy html, else the
\* dictionary of the page
scrape_page ==
    /\ pc = "scrape"
    /\ documentation' =
          IF ~truthy(ret.result) THEN documentation
          ELSE CASE ret.kind = "dart_archive" ->
                      [documentation EXCEPT !.dart_archive =
                          Some(scraped(ret.result.content, ret.url, "Dart SDK Archive",
                                       ret.max_chars))]
                 [] ret.kind = "flutter_releases" ->
                      [documentation EXCEPT !.flutter_releases =
                          Some(scraped(ret.result.content, ret.url,
                                       "Flutter Release Notes", ret.max_chars))]
                 [] ret.kind = "educational_resources" ->
                      [documentation EXCEPT !.educational_resources =
                          Append(@, scraped(ret.result.content, ret.url, ret.url,
                                            ret.max_chars))]
    /\ pc' = "build_context_summary"
    /\ UNCHANGED <<cacheVars, i, attempts, context, faults, threads>>

NextPaths ==
    \/ fetch_page
    \/ scrape_page
    \/ summarise

SpecPaths == InitPaths /\ [][NextPaths]_vars

----------------------------------------------------------------------------
(* Two threads on one CacheManager, as two requests served at once call it:
   the reader is in get, the writer in set, and a step is one access to the
   file system.  Nothing in CacheManager locks. *)

ConcAddresses == {DART_ARCHIVE_URL}
ConcContents == {PageA, PageB}

\* what unlink does to a file another thread holds open for writing: the
\* name goes and the writer keeps an orphan, or the unlink is refused
UnlinkOfOpenFile == {"removes_name", "refused"}

Done(op, url, result) == [pc |-> "done", op |-> op, url |-> url, result |-> result]

\* get, lines 66-70: cache_path.exists()
get_exists(url) ==
    /\ threads.reader.pc \in {"idle", "done"}
    /\ threads' = [threads EXCEPT !.reader =
                      IF files[PathOf(url)].kind = "absent"
                      THEN Done("get", url, None) @@ [found_expired |-> FALSE]
                      ELSE [pc |-> "open", op |-> "get", url |-> url]]
    /\ UNCHANGED <<cacheVars, runVars>>

\* get, lines 73-83: open, json.load and the comparison with the TTL
get_load ==
    /\ threads.reader.pc = "open"
    /\ LET url == threads.reader.url
           f == files[PathOf(url)]
       IN  threads' = [threads EXCEPT !.reader =
                         IF f.kind # "record"
                         THEN \* FileNotFoundError or JSONDecodeError, caught
                              Done("get", url, None) @@ [found_expired |-> FALSE]
                         ELSE IF expired(json_load(f).cached_time, now)
                         THEN [pc |-> "unlink", op |-> "get", url |-> url]
                         ELSE Done("get", url, Some(json_load(f).content))
                                  @@ [found_expired |-> FALSE]]
    /\ UNCHANGED <<cacheVars, runVars>>

\* get, lines 80-81: cache_path.unlink(), whatever the path now names
get_unlink ==
    /\ threads.reader.pc = "unlink"
    /\ LET url == threads.reader.url
           path == PathOf(url)
           open_for_writing == /\ threads.writer.pc = "dump"
                               /\ threads.writer.url = url
                               /\ ~threads.writer.orphan
       IN  \E os \in UnlinkOfOpenFile :
             /\ ~open_for_writing => os = "removes_name"
             /\ files' = IF files[path].kind = "absent" \/ os = "refused"
                          THEN files \* FileNotFoundError or PermissionError, caught
                          ELSE [files EXCEPT ![path] = Absent]
             /\ threads' = [reader |-> Done("get", url, None) @@ [found_expired |-> TRUE],
                            writer |-> IF open_for_writing /\ os = "removes_name"
                                       THEN [threads.writer EXCEPT !.orphan = TRUE]
                                       ELSE threads.writer]
    /\ UNCHANGED <<now, ret, written, gone, runVars>>

\* set, lines 100-110: the record is built, then open(cache_path, 'w')
\* truncates the file or creates it
set_open(url, content) ==
    /\ threads.writer.pc \in {"idle", "done"}
    /\ \E w \in {o \in WriteOutcomes : o.io \in {"ok", "open_fails"}} :
          LET path == PathOf(url)
              before == CacheManager_get(files, url, now).result
          IN  IF w.io = "open_fails"
              THEN /\ threads' = [threads EXCEPT !.writer = Done("set", url, FALSE)
                                      @@ [content |-> content, timestamp |-> now,
                                          previous |-> before]]
                   /\ files' = files
              ELSE /\ threads' = [threads EXCEPT !.writer =
                                      [pc |-> "dump", op |-> "set", url |-> url,
                                       content |-> content, timestamp |-> now,
                                       orphan |-> FALSE, previous |-> before]]
                   /\ files' = [files EXCEPT ![path] = Partial(0)]
    /\ UNCHANGED <<now, ret, written, gone, runVars>>

\* set, lines 111-117: json.dump and the close of the file
set_dump ==
    /\ threads.writer.pc = "dump"
    /\ \E w \in {o \in WriteOutcomes : o.io \in {"ok", "dump_fails"}} :
          LET c == threads.writer
              path == PathOf(c.url)
          IN  /\ files' = IF c.orphan THEN files
                           ELSE IF w.io = "ok"
                           THEN [files EXCEPT ![path] = Record(c.url, c.content, c.timestamp)]
                           ELSE [files EXCEPT ![path] = Partial(w.left)]
              /\ threads' = [threads EXCEPT !.writer = Done("set", c.url, w.io = "ok")
                                 @@ [content |-> c.content, timestamp |-> c.timestamp,
                                     previous |-> c.previous]]
    /\ UNCHANGED <<now, ret, written, gone, runVars>>

ReaderStep ==
    \/ \E url \in ConcAddresses : get_exists(url)
    \/ get_load
    \/ get_unlink

WriterStep ==
    \/ \E url \in ConcAddresses, content \in ConcContents : set_open(url, content)
    \/ set_dump

NextConc ==
    \/ ReaderStep
    \/ WriterStep
    \/ Tick

SpecConc == Init /\ [][NextConc]_vars

----------------------------------------------------------------------------
(* Two runs at once: the handlers scrape_documentation and initialize_tutor,
   each on its request thread, call _fetch_url of the one doc_scraper for an
   address that is not cached.  A step is the lookup, the request, the
   open(path, 'w') of set, or its json.dump; the clock stands still.  Each
   open has its own file position, at 0, so a dump goes over the beginning
   of whatever the file holds by then. *)

Handlers == {"scrape_documentation", "initialize_tutor"}

FlightAddresses == {DART_ARCHIVE_URL}

FlightNets ==
    {[ok |-> FALSE, text |-> EmptyDoc], [ok |-> TRUE, text |-> PageA],
     [ok |-> TRUE, text |-> PageB]}

Other(h) == CHOOSE g \in Handlers : g # h

\* a thread in _fetch_url(url): where it is, what it will return, whether it
\* has gone to the network, how its cache write ended, and whether the other
\* thread was inside _fetch_url when it started
InFetch(at, url, result, network, cache_set, timestamp, concurrent) ==
    [pc |-> at, op |-> "_fetch_url", url |-> url, result |-> result,
     network |-> network, cache_set |-> cache_set, timestamp |-> timestamp,
     concurrent |-> concurrent]

InitFlight ==
    /\ files = [p \in Paths |-> Absent]
    /\ now = 0
    /\ ret = Idle
    /\ written = [u \in Addresses |-> None]
    /\ gone = [u \in Addresses |-> "no"]
    /\ RunIdle
    /\ threads = [h \in Handlers |-> NoCall]

\* _fetch_url, lines 59-63: the lookup in the cache
flight_lookup(h, url) ==
    /\ threads[h].pc = "idle"
    /\ LET g == CacheManager_get(files, url, now)
           concurrent == threads[Other(h)].pc \notin {"idle", "done"}
       IN  /\ files' = g.fs
           /\ threads' = [threads EXCEPT ![h] =
                             IF truthy(g.result)
                             THEN InFetch("done", url, g.result, 0, "skipped", now,
                                          concurrent)
                             ELSE InFetch("request", url, None, 0, "skipped", now,
                                          concurrent)]
    /\ UNCHANGED <<now, ret, written, gone, runVars>>

\* _fetch_url, lines 66-69 and 78-80: the request and its failure
flight_request(h) ==
    /\ threads[h].pc = "request"
    /\ \E net \in FlightNets :
          threads' = [threads EXCEPT ![h] =
                         IF net.ok
                         THEN [@ EXCEPT !.pc = "set_open", !.result = Some(net.text),
                                        !.network = 1]
                         ELSE [@ EXCEPT !.pc = "done", !.network = 1]]
    /\ UNCHANGED <<cacheVars, runVars>>

\* set, lines 100-110, called at line 73: the record is built, then
\* open(cache_path, 'w') truncates the file or creates it
flight_set_open(h) ==
    /\ threads[h].pc = "set_open"
    /\ \E w \in {o \in WriteOutcomes : o.io \in {"ok", "open_fails"}} :
          IF w.io = "open_fails"
          THEN /\ threads' = [threads EXCEPT ![h] =
                                 [@ EXCEPT !.pc = "done", !.cache_set = "failed",
                                           !.timestamp = now]]
               /\ files' = files
          ELSE /\ threads' = [threads EXCEPT ![h] =
                                 [@ EXCEPT !.pc = "dump", !.timestamp = now]]
               /\ files' = [files EXCEPT ![PathOf(threads[h].url)] = Partial(0)]
    /\ UNCHANGED <<now, ret, written, gone, runVars>>

\* the file after size bytes, the whole of record when complete, are written
\* at position 0 of a file that holds f
Overwritten(f, size, record) ==
    IF st_size(f) > size THEN Partial(st_size(f)) ELSE record

\* set, lines 111-117: json.dump and the close of the file
flight_set_dump(h) ==
    /\ threads[h].pc = "dump"
    /\ \E w \in {o \in WriteOutcomes : o.io \in {"ok", "dump_fails"}} :
          LET c == threads[h]
              path == PathOf(c.url)
              record == Record(c.url, c.result.content, c.timestamp)
          IN  /\ files' = [files EXCEPT ![path] =
                              IF w.io = "ok"
                              THEN Overwritten(@, st_size(record), record)
                              ELSE Overwritten(@, w.left, Partial(w.left))]
              /\ threads' = [threads EXCEPT ![h] =
                                [@ EXCEPT !.pc = "done",
                                          !.cache_set = IF w.io = "ok" THEN "ok"
                                                        ELSE "failed"]]
    /\ UNCHANGED <<now, ret, written, gone, runVars>>

FlightStep(h) ==
    \/ \E url \in FlightAddresses : flight_lookup(h, url)
    \/ flight_request(h)
    \/ flight_set_open(h)
    \/ flight_set_dump(h)

NextFlight == \E h \in Handlers : FlightStep(h)

SpecFlight == InitFlight /\ [][NextFlight]_vars

----------------------------------------------------------------------------
(* Enumeration against deletion: one thread is in get_cache_stats or in
   clear_all, a step per access to the file system (the listing of the
   directory, then a stat or an unlink per file listed, in the order the
   directory gives them), while another thread calls get, invalidate and
   clear_all on the same CacheManager.  The cache holds what earlier calls
   left: records written at hour 0 and files of failed writes. *)

InitEnum ==
    /\ \E fs \in [Addresses -> {"absent", "partial", "record"}] :
          /\ files = [p \in Paths |->
                        LET u == CHOOSE a \in Addresses : PathOf(a) = p
                        IN  CASE fs[u] = "absent" -> Absent
                              [] fs[u] = "partial" -> Partial(0)
                              [] fs[u] = "record" -> Record(u, PageA, 0)]
          /\ written = [u \in Addresses |->
                          IF fs[u] = "record"
                          THEN [hit |-> TRUE, content |-> PageA, at |-> 0] ELSE None]
    /\ now \in {0, ttl + 1}
    /\ ret = Idle
    /\ gone = [u \in Addresses |-> "no"]
    /\ RunIdle
    /\ threads = [enumerator |-> NoCall]

\* get_cache_stats, line 162: cache_files = list(self.cache_dir.glob("*.json"))
stats_glob ==
    /\ threads.enumerator.pc \in {"idle", "done"}
    /\ threads' = [enumerator |->
                      [pc |-> "stat", op |-> "get_cache_stats", started |-> glob(files),
                       todo |-> glob(files), total_size |-> 0]]
    /\ UNCHANGED <<cacheVars, runVars>>

\* get_cache_stats, line 163: f.stat() of the next file of the list; a file
\* that is gone raises FileNotFoundError, which nothing in the method catches
stats_stat ==
    /\ threads.enumerator.pc = "stat"
    /\ \E p \in threads.enumerator.todo :
          threads' = [enumerator |->
                        IF files[p].kind = "absent"
                        THEN [pc |-> "done", op |-> "get_cache_stats", raised |-> TRUE,
                              started |-> threads.enumerator.started]
                        ELSE [threads.enumerator EXCEPT
                                 !.todo = @ \ {p},
                                 !.total_size = @ + st_size(files[p])]]
    /\ UNCHANGED <<cacheVars, runVars>>

\* get_cache_stats, lines 165-169: the dictionary returned
stats_return ==
    /\ threads.enumerator.pc = "stat"
    /\ threads.enumerator.todo = {}
    /\ LET c == threads.enumerator
       IN  threads' = [enumerator |->
                         [pc |-> "done", op |-> "get_cache_stats", raised |-> FALSE,
                          started |-> c.started,
                          result |->
                              [total_items |-> Cardinality(c.started),
                               total_size_bytes |-> c.total_size,
                               total_size_mb |->
                                   (c.total_size * 100 + 524288) \div (1024 * 1024)]]]
    /\ UNCHANGED <<cacheVars, runVars>>

\* clear_all, line 148: the glob lists the directory when the loop asks for
\* its first file
clear_glob ==
    /\ threads.enumerator.pc \in {"idle", "done"}
    /\ threads' = [enumerator |->
                      [pc |-> "unlink", op |-> "clear_all", started |-> glob(files),
                       todo |-> glob(files)]]
    /\ UNCHANGED <<cacheVars, runVars>>

\* clear_all, line 149: cache_file.unlink() of the next file listed; a file
\* that is gone raises FileNotFoundError, caught at line 151: return False
clear_unlink ==
    /\ threads.enumerator.pc = "unlink"
    /\ \E p \in threads.enumerator.todo :
          IF files[p].kind = "absent"
          THEN /\ threads' = [enumerator |->
                                 [pc |-> "done", op |-> "clear_all", raised |-> FALSE,
                                  started |-> threads.enumerator.started,
                                  result |-> FALSE]]
               /\ UNCHANGED <<files, written, gone>>
          ELSE /\ threads' = [enumerator |->
                                 [threads.enumerator EXCEPT !.todo = @ \ {p}]]
               /\ files' = [files EXCEPT ![p] = Absent]
               /\ written' = [u \in Addresses |->
                                 IF PathOf(u) = p THEN None ELSE written[u]]
               /\ gone' = [u \in Addresses |->
                              IF PathOf(u) = p THEN "clear_all" ELSE gone[u]]
    /\ UNCHANGED <<now, ret, runVars>>

\* clear_all, line 150: return True
clear_return ==
    /\ threads.enumerator.pc = "unlink"
    /\ threads.enumerator.todo = {}
    /\ threads' = [enumerator |->
                      [pc |-> "done", op |-> "clear_all", raised |-> FALSE,
                       started |-> threads.enumerator.started, result |-> TRUE]]
    /\ UNCHANGED <<cacheVars, runVars>>

EnumeratorStep ==
    \/ stats_glob
    \/ stats_stat
    \/ stats_return
    \/ clear_glob
    \/ clear_unlink
    \/ clear_return

DeleterStep ==
    \/ Get
    \/ Invalidate
    \/ clear_all

NextEnum ==
    \/ EnumeratorStep
    \/ DeleterStep

SpecEnum == InitEnum /\ [][NextEnum]_vars

----------------------------------------------------------------------------
(* Claims about the cache API, checked under Spec *)

\* the file get(ret.url) looked at
RetFile == files[PathOf(ret.url)]

\* C1: a get(a) issued after a successful set(a, c), with no set,
\* invalidate or clear_all on a in between and the entry no older than the
\* TTL, returns exactly c.
C1_RoundTrip ==
    (/\ ret.op = "get"
     /\ written[ret.url].hit
     /\ now - written[ret.url].at <= ttl)
        => ret.result = Some(written[ret.url].content)

\* a hit on an entry whose age is exactly the TTL
C1_Witness ==
    /\ ret.op = "get"
    /\ written[ret.url].hit
    /\ now - written[ret.url].at = ttl
    /\ ret.result = Some(written[ret.url].content)

\* C2: after set(a, c) at t0 with no later set on a, a get(a) later than
\* t0 + ttl is a miss and deletes the entry; get_cache_stats then no longer
\* counts it, and every get(a) is a miss until the next set(a, _).
C2_ExpiryEvicts ==
    /\ (/\ ret.op = "get"
        /\ written[ret.url].hit
        /\ now - written[ret.url].at > ttl)
            => (ret.result = None /\ RetFile.kind = "absent")
    /\ \A a \in DOMAIN gone :
          gone[a] = "expiry" =>
              /\ files[PathOf(a)].kind = "absent"
              /\ (ret.op = "get" /\ ret.url = a) => ret.result = None
              /\ ret.op = "get_cache_stats" =>
                    ret.result.total_items
                        <= Cardinality({b \in DOMAIN gone : gone[b] # "expiry"})

\* the get that finds the entry expired, and the stats call after it
C2_Witness ==
    /\ ret.op = "get_cache_stats"
    /\ ret.result.total_items = 1
    /\ \E a \in DOMAIN gone :
          /\ gone[a] = "expiry"
          /\ written[a].hit
          /\ now - written[a].at > ttl

\* C3: invalidate(a) followed by get(a) is a miss whatever a held before;
\* with no entry for a, invalidate(a) returns success and changes no file.
C3_InvalidateThenMiss ==
    /\ [](\A a \in DOMAIN gone :
            (gone[a] = "invalidate" /\ ret.op = "get" /\ ret.url = a)
                => ret.result = None)
    /\ [][\A a \in Addresses :
            (files[PathOf(a)].kind = "absent" /\ invalidate(a))
                => (files' = files /\ ret'.result = TRUE)]_vars

\* a get right after the invalidation of an address whose other address
\* still holds its entry
C3_Witness ==
    /\ ret.op = "get"
    /\ gone[ret.url] = "invalidate"
    /\ \E b \in Addresses : files[PathOf(b)].kind = "record"

\* C4: clear_all() followed by get_cache_stats() reports 0 items and 0
\* bytes, whatever set, get and invalidate calls came before.
C4_ClearAllThenEmptyStats ==
    (/\ ret.op = "get_cache_stats"
     /\ \A a \in DOMAIN gone : gone[a] \in {"clear_all", "clear_all_nothing"})
        => (ret.result.total_items = 0 /\ ret.result.total_size_bytes = 0)

\* stats after a clear_all that removed a file of every address
C4_Witness ==
    /\ ret.op = "get_cache_stats"
    /\ \A a \in DOMAIN gone : gone[a] = "clear_all"

\* C5: for distinct addresses a and b, set(a, _), invalidate(a) and get(a)
\* leave the entry of b unchanged, and a get never returns content that was
\* written under another address.
C5_KeyIsolation ==
    /\ [](ret.op = "get" /\ ret.result.hit => ret.src = ret.url)
    /\ [][\A a \in Addresses :
            (/\ ret'.op \in {"set", "invalidate", "get"}
             /\ ret'.url = a
             /\ ((\E c \in Contents : set(a, c)) \/ invalidate(a) \/ get(a)))
                => \A b \in Addresses \ {a} :
                      files'[PathOf(b)] = files[PathOf(b)]]_vars

\* a hit on one address while the other holds different content
C5_Witness ==
    /\ ret.op = "get"
    /\ ret.result.hit
    /\ \E b \in Addresses \ {ret.url} :
          /\ files[PathOf(b)].kind = "record"
          /\ json_load(files[PathOf(b)]).content # ret.result.content

\* C14: set returns failure whenever the write did not complete, and success
\* only if the entry of the address then holds the content with a fresh
\* timestamp.
C14_SetReportsOutcome ==
    ret.op = "set" =>
        /\ ret.io # "ok" => ret.result = FALSE
        /\ ret.result = TRUE => RetFile = Record(ret.url, ret.content, now)

\* a set whose dump stopped part-way over an entry, reported as a failure
C14_Witness ==
    /\ ret.op = "set"
    /\ ret.io = "dump_fails"
    /\ ret.result = FALSE
    /\ RetFile.kind = "partial"

\* the stored record of file f is older than the TTL
Stale(f) == f.kind = "record" /\ now - json_load(f).cached_time > ttl

\* C16: the item count of get_cache_stats is the number of files in storage
\* at the time of the call, expired records that no get has evicted yet
\* included, and the total size is the sum of their sizes.
C16_StatsReflectStorage ==
    ret.op = "get_cache_stats" =>
        /\ ret.result.total_items
              = Cardinality({a \in Addresses : files[PathOf(a)].kind # "absent"})
        /\ ret.result.total_size_bytes
              = st_size(files[PathOf(DART_ARCHIVE_URL)])
                  + st_size(files[PathOf(FLUTTER_RELEASES_URL)])

\* stats that count an expired record next to another file
C16_Witness ==
    /\ ret.op = "get_cache_stats"
    /\ ret.result.total_items = 2
    /\ ret.result.total_size_bytes > 0
    /\ \E a \in Addresses : Stale(files[PathOf(a)])

\* C17 as stated: in every reachable state every stored entry satisfies
\* now - storedAt <= ttl.
C17_BoundedPersistence ==
    \A p \in DOMAIN files : ~Stale(files[p])

\* C17 as amended: no entry is served more than ttl past its last write, and
\* no expired entry survives a get of its address; until such a get (or an
\* invalidate or clear_all) it stays in storage.
C17_NeverServedPastTtl ==
    ret.op = "get" =>
        /\ ~Stale(RetFile)
        /\ ret.result.hit =>
              /\ RetFile.kind = "record"
              /\ now - json_load(RetFile).cached_time <= ttl

\* a get that evicted the expired entry of its address while the expired
\* entry of the other address is still stored
C17_Witness ==
    /\ ret.op = "get"
    /\ gone[ret.url] = "expiry"
    /\ RetFile.kind = "absent"
    /\ \E b \in Addresses \ {ret.url} : Stale(files[PathOf(b)])

\* C18: an entry is valid iff now - storedAt <= ttl: a get at age exactly ttl
\* returns the content and keeps the entry, a get at any greater age is a
\* miss, and the one ttl holds for every address.
C18_ValidityBoundary ==
    \A a \in Addresses :
        (ret.op = "get" /\ ret.url = a /\ written[a].hit) =>
            /\ ret.result.hit <=> now - written[a].at <= ttl
            /\ now - written[a].at <= ttl =>
                  /\ ret.result = Some(written[a].content)
                  /\ files[PathOf(a)] = Record(a, written[a].content, written[a].at)

\* a miss on an entry one hour past the TTL
C18_Witness ==
    /\ ret.op = "get"
    /\ written[ret.url].hit
    /\ now - written[ret.url].at = ttl + 1
    /\ ~ret.result.hit

\* C26: reads do not extend lifetime: a get that hits leaves every file as it
\* was, so an entry keeps the content and the timestamp its last set wrote
\* until it is evicted, however often it is read; get_cache_stats changes
\* neither the files nor the clock.
C26_ReadsDoNotExtendLifetime ==
    /\ [](\A a \in Addresses :
            written[a].hit =>
                files[PathOf(a)] \in
                    {Absent, Record(a, written[a].content, written[a].at)})
    /\ [][(ret'.op = "get" /\ ret'.result.hit) => files' = files]_vars
    /\ [][ret'.op = "get_cache_stats" => (files' = files /\ now' = now)]_vars

\* a hit some hours after the set, the file still carrying the set's timestamp
C26_Witness ==
    /\ ret.op = "get"
    /\ ret.result.hit
    /\ written[ret.url].hit
    /\ now - written[ret.url].at >= 12
    /\ json_load(RetFile).cached_time = written[ret.url].at

----------------------------------------------------------------------------
(* Claims about _fetch_url, checked under SpecFetch *)

\* address a holds a record that get would return at this hour
ValidEntry(a) ==
    /\ files[PathOf(a)].kind = "record"
    /\ ~expired(json_load(files[PathOf(a)]).cached_time, now)

\* C9: whenever the cache holds a valid entry for an address, _fetch_url for
\* it returns the cached content and performs no network retrieval, for
\* every stored content value.
C9_HitSkipsNetwork ==
    [][\A a \in Addresses :
        (ValidEntry(a) /\ _fetch_url(a))
            => /\ ret'.result = Some(json_load(files[PathOf(a)]).content)
               /\ ret'.network = 0]_vars

\* C10: a _fetch_url that misses and retrieves the content has written it to
\* the cache when it returns (unless the write failed), and a second
\* _fetch_url of the address within the TTL, with no deletion or write
\* failure in between, returns the same content with no network retrieval.
C10_StoreOnMiss ==
    /\ []((/\ ret.op = "_fetch_url"
           /\ ret.cache_set = "ok")
            => files[PathOf(ret.url)] = Record(ret.url, ret.result.content, now))
    /\ [][\A a \in Addresses :
            (/\ written[a].hit
             /\ gone[a] = "no"
             /\ now - written[a].at <= ttl
             /\ _fetch_url(a))
                => /\ ret'.result = Some(written[a].content)
                   /\ ret'.network = 0]_vars

\* C11: when the network retrieval fails, _fetch_url returns None and
\* attempts no cache write, and the failed retrieval creates, overwrites and
\* removes no entry: every file is as the cache lookup before it left it
\* (which evicts the entry of the address if that had expired).
C11_FetchFailureLeavesCache ==
    [][\A a \in Addresses :
        (/\ ret'.op = "_fetch_url"
         /\ ret'.url = a
         /\ ret'.network = 1
         /\ ~ret'.result.hit
         /\ _fetch_url(a))
            => /\ ret'.result = None
               /\ ret'.cache_set = "skipped"
               /\ \A b \in Addresses :
                     \/ files'[PathOf(b)] = files[PathOf(b)]
                     \/ /\ b = a
                        /\ Stale(files[PathOf(a)])
                        /\ files'[PathOf(a)] = Absent]_vars

\* a failed retrieval for an address whose file is still there, next to the
\* entry of the other address
C11_Witness ==
    /\ ret.op = "_fetch_url"
    /\ ret.network = 1
    /\ ret.result = None
    /\ \A b \in Addresses : files[PathOf(b)].kind # "absent"

\* C15: when the stored record cannot be parsed, get returns a miss without
\* raising, and _fetch_url goes on to the network as on an ordinary miss:
\* what it returns and whether it writes are what they are with no file.
C15_ReadErrorsFailOpen ==
    [][\A a \in Addresses :
        (files[PathOf(a)].kind = "partial" /\ _fetch_url(a))
            => /\ CacheManager_get(files, a, now).result = None
               /\ ret'.network = 1
               /\ \E net \in NetOutcomes, w \in WriteOutcomes :
                     LET miss == DocScraper_fetch_url(
                                     [files EXCEPT ![PathOf(a)] = Absent],
                                     a, TRUE, now, net, w)
                     IN  /\ ret'.result = miss.result
                         /\ ret'.cache_set = miss.cache_set
                         /\ ret'.result = IF net.ok THEN Some(net.text) ELSE None
                         /\ miss.fs[PathOf(a)].kind = "record"
                                => files' = miss.fs]_vars

\* a lookup that found a truncated file, went to the network and failed
\* there: no write was attempted, so the file is the one the lookup found
C15_Witness ==
    /\ ret.op = "_fetch_url"
    /\ ret.network = 1
    /\ ret.cache_set = "skipped"
    /\ ret.result = None
    /\ files[PathOf(ret.url)].kind = "partial"

----------------------------------------------------------------------------
(* Claims about a run, checked under SpecRun *)

\* the addresses of the sections of the summary, in order
SectionUrls ==
    LET sections == SelectSeq(context.parts,
                              LAMBDA q : q.kind \in {"dart_archive", "flutter_releases",
                                                     "resource"})
    IN  [k \in 1..Len(sections) |-> sections[k].url]

\* the supplementary sections of the summary, in order
ResourceSections == SelectSeq(context.parts, LAMBDA q : q.kind = "resource")

\* the run retrieved content for the address
Succeeded(u) ==
    \E k \in 1..Len(attempts) :
        /\ attempts[k].url = u
        /\ attempts[k].outcome # "failed"
        /\ ~attempts[k].empty

\* the sources that succeeded, in list order, the supplementary ones up to
\* the cap of the summary
SucceededWithinCap ==
    SelectSeq(<<DART_ARCHIVE_URL, FLUTTER_RELEASES_URL>>, Succeeded)
        \o Slice(SelectSeq(EDUCATIONAL_URLS, Succeeded), SummaryCap)

\* C6: whatever subset of the sources fails to be retrieved, the run does not
\* raise, and the context has a section for every source that succeeded, in
\* list order, and none for a source that failed.  The supplementary
\* sections are read with the cap of 8 that the summary applies.
C6_PartialFailureAggregation ==
    pc = "done" =>
        /\ ~context.raised
        /\ SectionUrls = SucceededWithinCap

\* C7: a run attempts every source exactly once, in the order Dart archive,
\* Flutter releases, then the supplementary sources as listed; each attempt
\* has its outcome before the next begins, and the run ends after the last:
\* every step of the run is the next attempt or, after the 13th, the summary.
C7_SequentialOrder ==
    /\ [](/\ Len(attempts) <= Len(Sources)
          /\ \A k \in 1..Len(attempts) :
                /\ attempts[k].url = Sources[k]
                /\ attempts[k].outcome \in {"cache_hit", "fetched", "failed"}
          /\ pc = "dart_archive" => Len(attempts) = 0
          /\ pc = "flutter_releases" => Len(attempts) = 1
          /\ pc = "educational_resources" => Len(attempts) = i + 1
          /\ pc \in {"build_context_summary", "done"} => Len(attempts) = Len(Sources))
    /\ [][\/ /\ pc \notin {"build_context_summary", "done"}
                /\ Len(attempts') = Len(attempts) + 1
             \/ /\ pc = "build_context_summary"
                /\ pc' = "done"
                /\ attempts' = attempts]_vars

\* a finished run with a hit, a retrieval and a failure among its attempts
C7_Witness ==
    /\ pc = "done"
    /\ \A o \in {"cache_hit", "fetched", "failed"} :
          \E k \in 1..Len(attempts) : attempts[k].outcome = o

\* C8: the summary never has more than 8 supplementary sections; they are
\* the first 8 results in list order, so with all 11 supplementary sources
\* succeeding they are the first 8 addresses of the list.
C8_SupplementaryCap ==
    /\ Len(ResourceSections) <= 8
    /\ (pc = "done" /\ ~context.raised) =>
          /\ Len(ResourceSections) = Min(8, Len(documentation.educational_resources))
          /\ \A k \in 1..Len(ResourceSections) :
                ResourceSections[k].url = documentation.educational_resources[k].url
          /\ (\A k \in 1..Len(EDUCATIONAL_URLS) : Succeeded(EDUCATIONAL_URLS[k]))
                => [k \in 1..Len(ResourceSections) |-> ResourceSections[k].url]
                      = SubSeq(EDUCATIONAL_URLS, 1, 8)

\* a summary built after all 11 supplementary sources succeeded
C8_Witness ==
    /\ pc = "done"
    /\ ~context.raised
    /\ \A k \in 1..Len(EDUCATIONAL_URLS) : Succeeded(EDUCATIONAL_URLS[k])
    /\ Len(EDUCATIONAL_URLS) = 11
    /\ Len(ResourceSections) = 8

\* the documentation holds a result for the address
Extracted(doc, u) ==
    \/ u = DART_ARCHIVE_URL /\ doc.dart_archive.hit
    \/ u = FLUTTER_RELEASES_URL /\ doc.flutter_releases.hit
    \/ \E n \in 1..Len(doc.educational_resources) : doc.educational_resources[n].url = u

\* the documentation after the step of the run that is due, when its
\* _fetch_url returns html
DocumentationAfter(html) ==
    CASE pc = "dart_archive" ->
           [documentation EXCEPT !.dart_archive = scrape_dart_archive_result(html)]
      [] pc = "flutter_releases" ->
           [documentation EXCEPT !.flutter_releases = scrape_flutter_releases_result(html)]
      [] pc = "educational_resources" ->
           [documentation EXCEPT !.educational_resources =
               scrape_educational_iteration(@, EDUCATIONAL_URLS[i], html)]
      [] OTHER -> documentation

\* C20: when the retrieval succeeds and the cache write fails, _fetch_url
\* returns the retrieved content, the source is extracted and has its section
\* in the context, and what the run returns and builds is what it returns and
\* builds when the write succeeds.
C20_CacheWriteFailureHarmless ==
    /\ [](\A k \in 1..Len(attempts) :
            attempts[k].cache_set = "failed" =>
                /\ attempts[k].outcome = "fetched"
                /\ ~attempts[k].empty => Extracted(documentation, attempts[k].url)
                /\ (pc = "done" /\ ~attempts[k].empty) =>
                      ((\E n \in 1..Len(SectionUrls) : SectionUrls[n] = attempts[k].url)
                          <=> /\ ~context.raised
                              /\ \E n \in 1..Len(SucceededWithinCap) :
                                    SucceededWithinCap[n] = attempts[k].url))
    /\ [][ret'.op = "_fetch_url" /\ ret'.cache_set = "failed" =>
            \E net \in RunNetOutcomes :
                LET written_ok == DocScraper_fetch_url(files, ret'.url, TRUE, now, net,
                                                      NominalWrite)
                IN  /\ net.ok
                    /\ written_ok.cache_set = "ok"
                    /\ ret'.result = Some(net.text)
                    /\ ret'.result = written_ok.result
                    /\ documentation' = DocumentationAfter(written_ok.result)]_vars

\* a finished run in which the write of a primary source failed part-way and
\* the source has its section
C20_Witness ==
    /\ pc = "done"
    /\ attempts[2].cache_set = "failed"
    /\ files[PathOf(FLUTTER_RELEASES_URL)].kind = "partial"
    /\ \E n \in 1..Len(SectionUrls) : SectionUrls[n] = FLUTTER_RELEASES_URL

\* C21: sections only for usable text: when the run is done, every labeled
\* section of the context belongs to a source that was retrieved (from the
\* cache or the network) and carries a non-empty text; a source whose
\* extraction yields "" has no section.
C21_SectionsOnlyForUsableText ==
    pc = "done" =>
        \A n \in 1..Len(context.parts) :
            context.parts[n].kind \in {"dart_archive", "flutter_releases", "resource"} =>
                /\ \E k \in 1..Len(attempts) :
                      /\ attempts[k].url = context.parts[n].url
                      /\ attempts[k].outcome \in {"cache_hit", "fetched"}
                /\ context.parts[n].content # ""

----------------------------------------------------------------------------
(* Claims about extraction, checked under SpecExtract *)

\* string a is the beginning of string b
IsPrefix(a, b) == Len(a) <= Len(b) /\ SubSeq(b, 1, Len(a)) = a

\* the text of the page before any budget is applied
FullText(html) == collapse_whitespace(get_text(html))

\* the sections of the summary
Sections ==
    SelectSeq(context.parts,
              LAMBDA q : q.kind \in {"dart_archive", "flutter_releases", "resource"})

\* C19: the text of a source's section in the context is a prefix of the text
\* extracted from its page and is never longer than the source's budget; a
\* budget of 10 on 25 characters of text keeps exactly the first 10.
C19_BudgetTruncation ==
    pc = "done" =>
        \A k \in 1..Len(Sections) :
            /\ IsPrefix(Sections[k].content, FullText(ret.html))
            /\ Len(Sections[k].content) <= ret.max_chars
            /\ (ret.html = PageHello /\ ret.max_chars = 10)
                  => Sections[k].content = "Hello worl"

\* the section of the 25-character page under a budget of 10
C19_Witness ==
    /\ pc = "done"
    /\ ret.html = PageHello
    /\ Len(FullText(ret.html)) = 25
    /\ ret.max_chars = 10
    /\ Len(Sections) = 1
    /\ Len(Sections[1].content) = 10

----------------------------------------------------------------------------
(* Claims about concurrent calls, checked under SpecConc *)

\* what a get of the address would return now
Observable(url) == CacheManager_get(files, url, now).result

\* C12: for an address with an entry, a set that runs while a get may run,
\* or that fails part-way, never leaves the entry unreadable or partial: at
\* every instant a get within the TTL observes the previous content or the
\* new content.
C12_NoTornWrite ==
    LET c == threads.writer
    IN  (/\ c.pc \in {"dump", "done"}
         /\ c.previous.hit)
            => Observable(c.url) \in {c.previous, Some(c.content)}

\* C13: when a set(a, c) of another thread interleaves with a get(a) that
\* found the entry expired, the deletion of the get does not remove the
\* entry just written: after both calls a get(a) within the TTL returns c.
C13_AtomicLazyExpiry ==
    LET r == threads.reader
        c == threads.writer
    IN  (/\ r.pc = "done"
         /\ r.found_expired
         /\ c.pc = "done"
         /\ c.url = r.url
         /\ c.result
         /\ now - c.timestamp <= ttl)
            => Observable(r.url) = Some(c.content)

----------------------------------------------------------------------------
(* Claims about configuration, checked under SpecConfig *)

\* C22: configuration errors are fatal: constructing the cache with a TTL of
\* zero or less raises, and a run over an empty descriptor list raises,
\* instead of yielding a cache or a summary.
C22_ConfigurationErrorsFatal ==
    /\ (ret.cache.constructed /\ ret.ttl_hours <= 0) => ret.cache.raised
    /\ (pc \in {"build_context_summary", "done"} /\ ret.urls = << >>) =>
          ret.run_raised

----------------------------------------------------------------------------
(* Claims about the two paths of a page, checked under SpecPaths *)

\* the summary's cut of a source's text
SummaryChars(kind) ==
    IF kind = "educational_resources" THEN EducationalSummaryChars
    ELSE PrimarySummaryChars

\* C24: hit/miss equivalence: the section of a source is determined by its
\* address, the raw content and the budget alone: the text of the page cut
\* to the budget and then to the summary's length, whether _fetch_url took
\* the content from the cache or from the network (no section for the empty
\* content on either path).
C24_HitMissEquivalence ==
    pc = "done" =>
        /\ ret.path = "miss" => ret.network = 1
        /\ (ret.path = "hit" /\ ret.html # EmptyDoc) => ret.network = 0
        /\ IF ret.html = EmptyDoc THEN Sections = << >>
           ELSE /\ Len(Sections) = 1
                /\ Sections[1].url = SourceUrl(ret.kind)
                /\ Sections[1].content =
                      Slice(Slice(FullText(ret.html), ret.max_chars),
                            SummaryChars(ret.kind))

\* a cached page with quotes, a backslash and a newline in its text, served
\* from the cache and cut by the budget
C24_Witness ==
    /\ pc = "done"
    /\ ret.path = "hit"
    /\ ret.network = 0
    /\ ret.html = PageB
    /\ ret.max_chars = 3
    /\ Len(Sections) = 1
    /\ Sections[1].content = "y \""

----------------------------------------------------------------------------
(* Claims about two runs at once, checked under SpecFlight *)

\* C23: single flight per address: when the two handlers are in _fetch_url
\* of the same uncached address at once, at most one of them goes to the
\* network, and once both have stored what they retrieved the file is the
\* record of one of the two contents.
C23_SingleFlight ==
    LET a == threads["scrape_documentation"]
        b == threads["initialize_tutor"]
    IN  (/\ a.pc # "idle"
         /\ b.pc # "idle"
         /\ a.url = b.url
         /\ a.concurrent \/ b.concurrent) =>
            /\ a.network + b.network <= 1
            /\ (/\ a.pc = "done"
                /\ b.pc = "done"
                /\ a.cache_set = "ok"
                /\ b.cache_set = "ok") =>
                   files[PathOf(a.url)] \in
                       {Record(a.url, a.result.content, a.timestamp),
                        Record(b.url, b.result.content, b.timestamp)}

----------------------------------------------------------------------------
(* Claims about enumeration against deletion, checked under SpecEnum *)

\* C25: cache operations never raise under concurrent deletion: a
\* get_cache_stats or clear_all that enumerates the entries while another
\* thread's get, invalidate or clear_all deletes some of them ends with a
\* value returned, no exception, and a clear_all that returned True has left
\* none of the files that were there when it started.
C25_NoRaiseUnderConcurrentDeletion ==
    LET e == threads.enumerator
    IN  e.pc = "done" =>
            /\ ~e.raised
            /\ (e.op = "clear_all" /\ e.result) =>
                   \A p \in e.started : files[p].kind = "absent"

====
